---------------------------- MODULE Spec2Model ----------------------------
(***************************************************************************)
(* Model of the consensus state client of relay-monitor                    *)
(* (package consensus, src/unnamed/part_001): three bounded LRU caches,    *)
(* the fetch / backfill operations that fill them, the warmup run by       *)
(* NewClient and the head-event stream.                                    *)
(*                                                                         *)
(* The remote consensus node is a black box.  Every remote call of the     *)
(* code is modelled by the result pair the library call hands back         *)
(* ((exists, err) or (syncing, err), plus the decoded data), drawn from    *)
(* all combinations the code distinguishes.                                *)
(***************************************************************************)
EXTENDS Integers, Sequences, FiniteSets, TLC

(***************************************************************************)
(* Bounds of the model.                                                    *)
(***************************************************************************)
\* Capacity handed to lru.New.  The program uses 128 (const cacheSize,
\* part_001 line 27); the model scales it down so that eviction is reached.
cacheSize == 2

\* Slots are 0..MaxSlot; uint64 arithmetic on slots is taken modulo
\* SlotModulus (the scaled-down 2^64).
MaxSlot == 3

\* Cap on each population gauge (a float64 counter in the program).
MaxGauge == 4

\* Longest list a remote response carries (proposer duties, validators).
MaxList == 3

\* NewClient is given a slotsPerEpoch of 0..MaxSlotsPerEpoch.
MaxSlotsPerEpoch == 2

\* The subscription hands at most MaxEvents raw events to the handler.
MaxEvents == 3

\* A cache used directly is given at most MaxAccesses operations.
MaxAccesses == 4

\* The analysis counts at most MaxFaults faults in all.
MaxFaults == 2


SlotModulus == MaxSlot + 1

Slots == 0..MaxSlot

\* the epochs asked for
Epochs == {0, 1}

Hashes == {"h1", "h2"}

PublicKeys == {"pkA", "pkB", "pkC"}

\* The validators of the remote chain: one index per public key.
Validators ==
    {[publicKey |-> "pkA", index |-> 7], [publicKey |-> "pkB", index |-> 9],
     [publicKey |-> "pkC", index |-> 11]}

\* types.Hash{}: the zero value returned next to an error.
ZeroHash == "0x00"

\* the nil error
Nil == "nil"

VARIABLES
    executionCache,       \* slot -> Hash, most recently used first
    executionCacheGauge,
    proposerCache,        \* slot -> ValidatorInfo
    proposerCacheGauge,
    validatorCache,       \* publicKey -> ValidatorResponse
    validatorCacheGauge,
    ret,                  \* the last call of the client: arguments, remote result, return values
    warmup,               \* NewClient in progress: its parameters, its position, its remote calls so far
    streamPc,             \* the goroutine of StreamHeads: where it is
    handled,              \* the raw events the subscription has handed to the handler, in order
    head,                 \* the coordinate the handler is sending
    ch,                   \* the channel StreamHeads returned: its buffer
    delivered,            \* the coordinates the consumer has received, in order
    cancelled,            \* ctx is cancelled
    accesses,             \* the Get and Add operations made directly on a cache, oldest first
    faultRecord,          \* FaultRecord: public key -> *Faults (0: no entry)
    faultsHeap,           \* the Faults blocks allocated so far, by address
    chain,                \* the remote chain: slot -> execution hash of its block, or skipped
    written               \* slot -> the hashes written to executionCache for it so far

execVars == <<executionCache, executionCacheGauge>>

proposerVars == <<proposerCache, proposerCacheGauge>>

validatorVars == <<validatorCache, validatorCacheGauge>>

streamVars == <<streamPc, handled, head, ch, delivered, cancelled>>

faultVars == <<faultRecord, faultsHeap>>

chainVars == <<chain, written>>

vars == <<execVars, proposerVars, validatorVars, ret, warmup, streamVars, accesses, faultVars,
         chainVars>>

(***************************************************************************)
(* hashicorp/golang-lru Cache: a list of entries, most recently used       *)
(* first.  Keys are Go interface values: a key is found only under a key   *)
(* of the same dynamic type with an equal value.                           *)
(***************************************************************************)
Key(type, v) == [type |-> type, v |-> v]

KeyEq(a, b) == a.type = b.type /\ a.v = b.v

LRUContains(cache, key) == \E i \in 1..Len(cache) : KeyEq(cache[i].key, key)

LRUIndex(cache, key) == CHOOSE i \in 1..Len(cache) : KeyEq(cache[i].key, key)

LRURemoveAt(cache, i) == SubSeq(cache, 1, i - 1) \o SubSeq(cache, i + 1, Len(cache))

\* Cache.Get: a hit moves the entry to the front.
LRUGet(cache, key) ==
    IF LRUContains(cache, key)
    THEN LET i == LRUIndex(cache, key)
         IN  [ok |-> TRUE, value |-> cache[i].value,
              cache |-> <<cache[i]>> \o LRURemoveAt(cache, i)]
    ELSE [ok |-> FALSE, value |-> Nil, cache |-> cache]

LRUAddNoEvict(cache, key, value) ==
    IF LRUContains(cache, key)
    THEN <<[key |-> key, value |-> value]>> \o LRURemoveAt(cache, LRUIndex(cache, key))
    ELSE <<[key |-> key, value |-> value]>> \o cache

\* Cache.Add: update or insert at the front; over capacity, drop the oldest.
LRUAdd(cache, key, value) ==
    IF LRUContains(cache, key)
    THEN <<[key |-> key, value |-> value]>> \o LRURemoveAt(cache, LRUIndex(cache, key))
    ELSE LET c == <<[key |-> key, value |-> value]>> \o cache
         IN  IF Len(c) > cacheSize THEN SubSeq(c, 1, cacheSize) ELSE c

(***************************************************************************)
(* Execution hashes.                                                       *)
(***************************************************************************)
\* types.Slot is uint64: the key type of Add(slot, ...) and Get(slot).
SlotKey(slot) == Key("uint64", slot)

\* GetExecutionHash (lines 155-165).  Only types.Hash values are ever
\* stored, so the type assertion of line 160 succeeds.
GetExecutionHash(cache, slot) ==
    LET g == LRUGet(cache, SlotKey(slot))
    IN  IF ~g.ok
        THEN [val |-> ZeroHash, err |-> "NotFound", cache |-> g.cache]
        ELSE [val |-> g.value, err |-> Nil, cache |-> g.cache]

FillForwardFromTarget(cache, i, slot, hash) ==
    IF i < slot
    THEN LRUAdd(cache, SlotKey(slot), hash)
    ELSE cache

\* the inner loop of backFillExecutionHash (lines 223-226)
RECURSIVE FillForward(_, _, _, _)
FillForward(cache, i, slot, hash) ==
    IF i < slot
    THEN FillForward(LRUAdd(cache, SlotKey(i + 1), hash), i + 1, slot, hash)
    ELSE cache

backFillExhaustedSilently(cache, slot) ==
    [val |-> ZeroHash, err |-> Nil, cache |-> cache, adds |-> 0]

\* the return of line 230
backFillExhausted(cache, slot) ==
    [val |-> ZeroHash, err |-> "BackfillExhausted", cache |-> cache, adds |-> 0]

\* the outer loop of backFillExecutionHash (lines 219-229), at index i
RECURSIVE backFillLoop(_, _, _)
backFillLoop(cache, slot, i) ==
    IF i > 0
    THEN LET targetSlot == i - 1
             r == GetExecutionHash(cache, targetSlot)
         IN  IF r.err = Nil
             THEN [val |-> r.val, err |-> Nil,
                   cache |-> FillForward(r.cache, targetSlot, slot, r.val),
                   adds |-> slot - targetSlot]
             ELSE backFillLoop(r.cache, slot, i - 1)
    ELSE backFillExhausted(cache, slot)

\* backFillExecutionHash (lines 218-231)
backFillExecutionHash(cache, slot) == backFillLoop(cache, slot, slot)

\* What beaconapi.BlockV2 hands back: (exists, err) and the decoded block.
\* exists is false when the request did not succeed: with a nil error the
\* node answered that there is no block at the slot, with an error the
\* request failed in transport.  exists with an error is a response that did
\* not decode.  A decoded block is of the Bellatrix fork, with an execution
\* payload, or of an earlier fork, without one.
NoData == [fork |-> "none", hash |-> ZeroHash]

BlockNotFound == [exists |-> FALSE, err |-> Nil, data |-> NoData]

BlockTransportError == [exists |-> FALSE, err |-> "TransportError", data |-> NoData]

BlockDecodeError == [exists |-> TRUE, err |-> "DecodeError", data |-> NoData]

BellatrixBlock(hash) == [exists |-> TRUE, err |-> Nil, data |-> [fork |-> "bellatrix", hash |-> hash]]

AltairBlock == [exists |-> TRUE, err |-> Nil, data |-> [fork |-> "altair", hash |-> ZeroHash]]

BlockV2Results ==
    {BlockNotFound, BlockTransportError, BlockDecodeError, AltairBlock}
        \cup {BellatrixBlock(h) : h \in Hashes}

FetchExecutionHashCachingUnparsed(cache, slot, resp) ==
    LET g == GetExecutionHash(cache, slot)
    IN  IF g.err = Nil
        THEN [val |-> g.val, err |-> Nil, cache |-> g.cache, adds |-> 0, queries |-> 0]
        ELSE IF ~resp.exists
        THEN backFillExecutionHash(g.cache, slot) @@ [queries |-> 1]
        ELSE IF resp.err # Nil
        THEN [val |-> ZeroHash, err |-> resp.err, cache |-> g.cache, adds |-> 0, queries |-> 1]
        ELSE IF resp.data.fork # "bellatrix"
        THEN [val |-> ZeroHash, err |-> "ParseBlock",
              cache |-> LRUAdd(g.cache, SlotKey(slot), resp.data.hash),
              adds |-> 1, queries |-> 1]
        ELSE [val |-> resp.data.hash, err |-> Nil,
              cache |-> LRUAdd(g.cache, SlotKey(slot), resp.data.hash),
              adds |-> 1, queries |-> 1]

FetchExecutionHashNoCache(cache, slot, resp) ==
    LET g == GetExecutionHash(cache, slot)
    IN  IF g.err = Nil
        THEN [val |-> g.val, err |-> Nil, cache |-> g.cache, adds |-> 0, queries |-> 0]
        ELSE IF ~resp.exists
        THEN backFillExecutionHash(g.cache, slot) @@ [queries |-> 1]
        ELSE IF resp.err # Nil
        THEN [val |-> ZeroHash, err |-> resp.err, cache |-> g.cache, adds |-> 0, queries |-> 1]
        ELSE IF resp.data.fork # "bellatrix"
        THEN [val |-> ZeroHash, err |-> "ParseBlock", cache |-> g.cache, adds |-> 0, queries |-> 1]
        ELSE [val |-> resp.data.hash, err |-> Nil, cache |-> g.cache, adds |-> 0, queries |-> 1]

\* FetchExecutionHash (lines 233-263).  resp is the result of the BlockV2
\* call, which is made only on a cache miss.
FetchExecutionHash(cache, slot, resp) ==
    LET g == GetExecutionHash(cache, slot)
    IN  IF g.err = Nil
        THEN [val |-> g.val, err |-> Nil, cache |-> g.cache, adds |-> 0, queries |-> 0]
        ELSE IF ~resp.exists
        THEN backFillExecutionHash(g.cache, slot) @@ [queries |-> 1]
        ELSE IF resp.err # Nil
        THEN [val |-> ZeroHash, err |-> resp.err, cache |-> g.cache, adds |-> 0, queries |-> 1]
        ELSE IF resp.data.fork # "bellatrix"
        THEN [val |-> ZeroHash, err |-> "ParseBlock", cache |-> g.cache, adds |-> 0, queries |-> 1]
        ELSE [val |-> resp.data.hash, err |-> Nil,
              cache |-> LRUAdd(g.cache, SlotKey(slot), resp.data.hash),
              adds |-> 1, queries |-> 1]

GetParentHashOfSlot(cache, slot, resp) ==
    LET g == GetExecutionHash(cache, slot)
    IN  IF g.err # Nil
        THEN FetchExecutionHash(g.cache, slot, resp)
        ELSE [val |-> g.val, err |-> Nil, cache |-> g.cache, adds |-> 0, queries |-> 0]

\* GetParentHash (lines 179-186); slot - 1 is uint64 arithmetic.
GetParentHash(cache, slot, resp) ==
    LET targetSlot == (slot - 1) % SlotModulus
        g == GetExecutionHash(cache, targetSlot)
    IN  IF g.err # Nil
        THEN FetchExecutionHash(g.cache, targetSlot, resp)
        ELSE [val |-> g.val, err |-> Nil, cache |-> g.cache, adds |-> 0, queries |-> 0]

\* Is the slot in the cache (Cache.Contains: no change of recency)?
Cached(cache, slot) == LRUContains(cache, SlotKey(slot))

\* The result recorded for a call that made no remote query.
NoQuery == [exists |-> FALSE, err |-> Nil, data |-> NoData]

GetExecutionHashCall(slot) ==
    LET r == GetExecutionHash(executionCache, slot)
    IN  /\ executionCache' = r.cache
        /\ ret' = [op |-> "GetExecutionHash", slot |-> slot, resp |-> NoQuery,
                   val |-> r.val, err |-> r.err, queries |-> 0, adds |-> 0]
        /\ UNCHANGED <<chainVars, faultVars, accesses, warmup, streamVars, executionCacheGauge, proposerVars, validatorVars>>

\* A call of FetchExecutionHash; the remote result matters on a miss only.
FetchExecutionHashCall(slot, resp) ==
    LET r == FetchExecutionHash(executionCache, slot, resp)
    IN  /\ Cached(executionCache, slot) => resp = NoQuery
        /\ executionCacheGauge + r.adds <= MaxGauge
        /\ executionCache' = r.cache
        /\ executionCacheGauge' = executionCacheGauge + r.adds
        /\ ret' = [op |-> "FetchExecutionHash", slot |-> slot, resp |-> resp,
                   val |-> r.val, err |-> r.err, queries |-> r.queries, adds |-> r.adds]
        /\ UNCHANGED <<chainVars, faultVars, accesses, warmup, streamVars, proposerVars, validatorVars>>

GetParentHashCall(slot, resp) ==
    LET r == GetParentHash(executionCache, slot, resp)
    IN  /\ Cached(executionCache, (slot - 1) % SlotModulus) => resp = NoQuery
        /\ executionCacheGauge + r.adds <= MaxGauge
        /\ executionCache' = r.cache
        /\ executionCacheGauge' = executionCacheGauge + r.adds
        /\ ret' = [op |-> "GetParentHash", slot |-> slot, resp |-> resp,
                   val |-> r.val, err |-> r.err, queries |-> r.queries, adds |-> r.adds]
        /\ UNCHANGED <<chainVars, faultVars, accesses, warmup, streamVars, proposerVars, validatorVars>>

NoCall == [op |-> "none", slot |-> 0, resp |-> NoQuery,
           val |-> ZeroHash, err |-> Nil, queries |-> 0, adds |-> 0]

\* types.Coordinate{}: the handler has no head to send.
NoHead == [slot |-> 0, root |-> "0x00"]

\* No NewClient in progress.
NoWarmup == [pc |-> "none", i |-> 0, currentSlot |-> 0, currentEpoch |-> 0,
             slotsPerEpoch |-> 0, trace |-> <<>>]

\* The caches as lru.New leaves them and the gauges as Set(0.0) leaves them
\* (lines 74-90); StreamHeads not called yet.
InitClient ==
    /\ executionCache = <<>>
    /\ executionCacheGauge = 0
    /\ proposerCache = <<>>
    /\ proposerCacheGauge = 0
    /\ validatorCache = <<>>
    /\ validatorCacheGauge = 0
    /\ ret = NoCall
    /\ warmup = NoWarmup
    /\ streamPc = "notStarted"
    /\ handled = <<>>
    /\ head = NoHead
    /\ ch = <<>>
    /\ delivered = <<>>
    /\ cancelled = FALSE
    /\ accesses = <<>>
    /\ faultRecord = [publicKey \in PublicKeys |-> 0]
    /\ faultsHeap = <<>>

\* A slot without a block.
Skipped == "skipped"

\* No chain is followed and nothing has been written.
Init ==
    /\ InitClient
    /\ chain = [slot \in Slots |-> Skipped]
    /\ written = [slot \in Slots |-> {}]

Next ==
    \/ \E slot \in Slots : GetExecutionHashCall(slot)
    \/ \E slot \in Slots, resp \in BlockV2Results : FetchExecutionHashCall(slot, resp)
    \/ \E slot \in Slots, resp \in BlockV2Results : GetParentHashCall(slot, resp)

\* The client after construction, used through its execution-hash operations.
Spec == Init /\ [][Next]_vars

(***************************************************************************)
(* Claims about the execution-hash operations, checked under Spec.         *)
(* A step of FetchExecutionHash(slot) is recognised by ret' (every call    *)
(* writes ret); the unprimed cache is the cache before the call.           *)
(***************************************************************************)
\* The slots s of (k, target] whose entry written by the backfill is still
\* in the cache when the backfill ends: the last cacheSize of them.
KeptByBackfill(k, target) == {s \in (k + 1)..target : target - s < cacheSize}

\* k is the nearest slot below target with a cached hash, that hash is H,
\* and nothing is cached for k+1..target.
NearestCachedBelow(cache, k, target, H) ==
    /\ k < target
    /\ \E i \in 1..Len(cache) : cache[i].key = SlotKey(k) /\ cache[i].value = H
    /\ \A s \in (k + 1)..target : ~Cached(cache, s)

\* The step is a call FetchExecutionHash(target) whose BlockV2 query was
\* answered with resp.
FetchStep(target, resp) ==
    /\ ret'.op = "FetchExecutionHash"
    /\ ret'.slot = target
    /\ ret'.queries = 1
    /\ ret'.resp = resp

\* C1 as stated: when k is the nearest earlier cached slot, with hash H,
\* and the remote reports target as having no block, FetchExecutionHash
\* returns H and afterwards GetExecutionHash returns H for EVERY slot of
\* (k, target].
C1_BackfillEverySlot ==
    [][\A target \in Slots, k \in Slots, H \in Hashes :
          (NearestCachedBelow(executionCache, k, target, H) /\ FetchStep(target, BlockNotFound))
          => /\ ret'.val = H
             /\ ret'.err = Nil
             /\ \A s \in (k + 1)..target :
                   LET g == GetExecutionHash(executionCache', s)
                   IN  g.err = Nil /\ g.val = H]_vars

\* C1 amended: FetchExecutionHash returns H and afterwards GetExecutionHash
\* returns H for the slots of (k, target] among the last cacheSize of the
\* range (all of them when target - k <= cacheSize); the earlier slots of
\* the range were evicted by the later writes and are not found.
C1_BackfillWithinCapacity ==
    [][\A target \in Slots, k \in Slots, H \in Hashes :
          (NearestCachedBelow(executionCache, k, target, H) /\ FetchStep(target, BlockNotFound))
          => /\ ret'.val = H
             /\ ret'.err = Nil
             /\ \A s \in (k + 1)..target :
                   LET g == GetExecutionHash(executionCache', s)
                   IN  IF s \in KeptByBackfill(k, target)
                       THEN g.err = Nil /\ g.val = H
                       ELSE g.err = "NotFound"]_vars

\* C1 witness: a backfill that returned a hash and wrote at least two slots.
C1_Witness ==
    /\ ret.op = "FetchExecutionHash"
    /\ ret.queries = 1
    /\ ret.resp = BlockNotFound
    /\ ret.err = Nil
    /\ ret.adds >= 2
    /\ \A s \in (ret.slot - 1)..ret.slot : GetExecutionHash(executionCache, s).val = ret.val

\* C2 as stated: on a cache miss, a remote query that ends in an error
\* (anything but the node reporting no block) makes FetchExecutionHash
\* return that error, with no backfill and no write to the cache.
C2_RemoteErrorPropagates ==
    [][\A target \in Slots, resp \in {BlockTransportError, BlockDecodeError} :
          FetchStep(target, resp)
          => /\ ret'.err = resp.err
             /\ ret'.adds = 0
             /\ executionCache' = executionCache]_vars

\* C4: with nothing cached below target and the remote reporting no block
\* at target, FetchExecutionHash(target) returns the backfill-exhausted
\* error, for slot 0 too, and leaves the cache as it was.
C4_BackfillExhaustion ==
    [][\A target \in Slots :
          (FetchStep(target, BlockNotFound) /\ \A s \in 0..(target - 1) : ~Cached(executionCache, s))
          => /\ ret'.err = "BackfillExhausted"
             /\ ret'.val = ZeroHash
             /\ ret'.adds = 0
             /\ executionCache' = executionCache]_vars

\* C4 witness: exhaustion at a slot above 0 while the cache holds entries
\* (all of them above the target).
C4_Witness ==
    /\ ret.op = "FetchExecutionHash"
    /\ ret.queries = 1
    /\ ret.resp = BlockNotFound
    /\ ret.err = "BackfillExhausted"
    /\ ret.slot > 0
    /\ executionCache # <<>>

\* The value stored under slot, read without touching the cache.
StoredHash(cache, slot) == cache[LRUIndex(cache, SlotKey(slot))].value

\* On a cached slot FetchExecutionHash returns the cached hash and makes no
\* remote query.
ReadThroughHit(slot) ==
    (ret'.op = "FetchExecutionHash" /\ ret'.slot = slot /\ Cached(executionCache, slot))
    => /\ ret'.queries = 0
       /\ ret'.err = Nil
       /\ ret'.val = StoredHash(executionCache, slot)

\* After the call the slot is cached with hash H: GetExecutionHash returns
\* it and a second FetchExecutionHash makes no remote query, whatever the
\* remote would answer.
ReadThroughCached(slot, H) ==
    /\ ret'.val = H
    /\ ret'.err = Nil
    /\ LET g == GetExecutionHash(executionCache', slot)
       IN  g.err = Nil /\ g.val = H
    /\ \A again \in BlockV2Results :
          LET f == FetchExecutionHash(executionCache', slot, again)
          IN  f.queries = 0 /\ f.err = Nil /\ f.val = H

\* C5 as stated: FetchExecutionHash is a read-through; on a miss, whenever
\* the remote returns a block, the block's execution-payload hash is
\* returned and cached.
C5_ReadThroughAnyBlock ==
    [][\A slot \in Slots :
          /\ ReadThroughHit(slot)
          /\ \A resp \in {r \in BlockV2Results : r.exists /\ r.err = Nil} :
                FetchStep(slot, resp) => ReadThroughCached(slot, resp.data.hash)]_vars

\* C5 amended: the same for a block of the Bellatrix fork; a block of
\* another fork makes the call fail with a parse error and caches nothing.
C5_ReadThroughBellatrix ==
    [][\A slot \in Slots :
          /\ ReadThroughHit(slot)
          /\ \A H \in Hashes :
                FetchStep(slot, BellatrixBlock(H)) => ReadThroughCached(slot, H)
          /\ FetchStep(slot, AltairBlock)
                => /\ ret'.err = "ParseBlock"
                   /\ ret'.val = ZeroHash
                   /\ executionCache' = executionCache]_vars

\* C5 witness: a miss answered with a Bellatrix block, now cached.
C5_Witness ==
    /\ ret.op = "FetchExecutionHash"
    /\ ret.queries = 1
    /\ ret.resp \in {BellatrixBlock(h) : h \in Hashes}
    /\ ret.val = ret.resp.data.hash
    /\ Cached(executionCache, ret.slot)

\* C14: GetParentHash(slot), slot >= 1: with slot - 1 cached it returns the
\* cached hash without a remote query; otherwise its value, its error and
\* the cache it leaves are those of FetchExecutionHash(slot - 1) on the
\* cache before the call.
C14_ParentHashDelegates ==
    [][(ret'.op = "GetParentHash" /\ ret'.slot >= 1)
        => IF Cached(executionCache, ret'.slot - 1)
           THEN /\ ret'.val = StoredHash(executionCache, ret'.slot - 1)
                /\ ret'.err = Nil
                /\ ret'.queries = 0
                /\ {<<executionCache'[j].key, executionCache'[j].value>> :
                        j \in 1..Len(executionCache')}
                     = {<<executionCache[j].key, executionCache[j].value>> :
                        j \in 1..Len(executionCache)}
           ELSE LET f == FetchExecutionHash(executionCache, ret'.slot - 1, ret'.resp)
                IN  /\ ret'.val = f.val
                    /\ ret'.err = f.err
                    /\ ret'.queries = f.queries
                    /\ executionCache' = f.cache
                    /\ executionCacheGauge' = executionCacheGauge + f.adds]_vars

\* C14 witness: GetParentHash(slot), slot >= 1, missed slot - 1, the node
\* had no block there, and the hash came from a backfill of more than one
\* slot.
C14_Witness ==
    /\ ret.op = "GetParentHash"
    /\ ret.slot >= 2
    /\ ret.queries = 1
    /\ ret.resp = BlockNotFound
    /\ ret.err = Nil
    /\ ret.adds >= 2
    /\ Cached(executionCache, ret.slot - 1)

\* C19: GetParentHash(slot), for every slot, slot 0 included, leaves the
\* entry of every slot number greater than or equal to slot alone: it
\* writes no such entry and, reading none, makes none the most recent.
C19_ParentHashLooksBackwards ==
    [][ret'.op = "GetParentHash"
        => \A s \in Slots :
              s >= ret'.slot
              /\ Cached(executionCache', s)
              => /\ Cached(executionCache, s)
                 /\ StoredHash(executionCache', s) = StoredHash(executionCache, s)
                 /\ (LRUIndex(executionCache', SlotKey(s)) = 1)
                       => (LRUIndex(executionCache, SlotKey(s)) = 1)]_vars

(***************************************************************************)
(* Proposers.                                                              *)
(***************************************************************************)
\* the nil *ValidatorInfo returned next to an error
NoValidatorInfo == [publicKey |-> "nil", index |-> 0]

ProposerAddKeyUnconverted(slot) == Key("common.Slot", slot)

\* The key of proposerCache.Add: uint64(duty.Slot) (line 208).
ProposerAddKey(slot) == Key("uint64", slot)

\* GetProposer (lines 143-153). Only ValidatorInfo values are stored, so
\* the type assertion of line 148 succeeds.
GetProposer(cache, slot) ==
    LET g == LRUGet(cache, SlotKey(slot))
    IN  IF ~g.ok
        THEN [val |-> NoValidatorInfo, err |-> "NotFound", cache |-> g.cache]
        ELSE [val |-> g.value, err |-> Nil, cache |-> g.cache]

\* GetProposerPublicKey (lines 188-195)
GetProposerPublicKey(cache, slot) ==
    LET r == GetProposer(cache, slot)
    IN  IF r.err # Nil
        THEN [val |-> "nil", err |-> "MissingProposer", cache |-> r.cache]
        ELSE [val |-> r.val.publicKey, err |-> Nil, cache |-> r.cache]

\* What validatorapi.ProposerDuties hands back: (syncing, err) and the
\* decoded duty list.
DutiesSyncing == [syncing |-> TRUE, err |-> Nil, data |-> <<>>]

DutiesTransportError == [syncing |-> FALSE, err |-> "TransportError", data |-> <<>>]

DutiesDecodeError == [syncing |-> FALSE, err |-> "DecodeError", data |-> <<>>]

DutiesOk(list) == [syncing |-> FALSE, err |-> Nil, data |-> list]

\* The duty lists a node answers with for an epoch: one eth2api.ProposerDuty
\* per slot of the epoch, in slot order, each naming a validator of the
\* chain.  The number n of slots of an epoch is the node's.
DutyLists(epoch, longest) ==
    UNION {{[j \in 1..n |-> [slot |-> epoch * n + j - 1,
                             pubkey |-> assigned[j].publicKey,
                             index |-> assigned[j].index]] :
               assigned \in [1..n -> Validators]} : n \in 0..longest}

\* the results with a list of at most `longest` duties
ProposerDutiesResults(epoch, longest) ==
    {DutiesSyncing, DutiesTransportError, DutiesDecodeError}
        \cup {DutiesOk(list) : list \in DutyLists(epoch, longest)}

Min(a, b) == IF a < b THEN a ELSE b

\* the loop of FetchProposers (lines 207-213), from duty i on
RECURSIVE AddDuties(_, _, _)
AddDuties(cache, duties, i) ==
    IF i > Len(duties)
    THEN cache
    ELSE AddDuties(LRUAdd(cache, ProposerAddKey(duties[i].slot),
                          [publicKey |-> duties[i].pubkey, index |-> duties[i].index]),
                   duties, i + 1)

FetchProposersCountingOnce(cache, epoch, resp) ==
    IF resp.syncing
    THEN [err |-> "NodeSyncing", cache |-> cache, adds |-> 0]
    ELSE IF resp.err # Nil
    THEN [err |-> resp.err, cache |-> cache, adds |-> 0]
    ELSE [err |-> Nil, cache |-> AddDuties(cache, resp.data, 1),
          adds |-> IF resp.data = <<>> THEN 0 ELSE 1]

\* FetchProposers (lines 197-216)
FetchProposers(cache, epoch, resp) ==
    IF resp.syncing
    THEN [err |-> "NodeSyncing", cache |-> cache, adds |-> 0]
    ELSE IF resp.err # Nil
    THEN [err |-> resp.err, cache |-> cache, adds |-> 0]
    ELSE [err |-> Nil, cache |-> AddDuties(cache, resp.data, 1), adds |-> Len(resp.data)]

GetProposerCall(slot) ==
    LET r == GetProposer(proposerCache, slot)
    IN  /\ proposerCache' = r.cache
        /\ ret' = [op |-> "GetProposer", slot |-> slot, val |-> r.val, err |-> r.err]
        /\ UNCHANGED <<chainVars, faultVars, accesses, warmup, streamVars, proposerCacheGauge, execVars, validatorVars>>

GetProposerPublicKeyCall(slot) ==
    LET r == GetProposerPublicKey(proposerCache, slot)
    IN  /\ proposerCache' = r.cache
        /\ ret' = [op |-> "GetProposerPublicKey", slot |-> slot, val |-> r.val, err |-> r.err]
        /\ UNCHANGED <<chainVars, faultVars, accesses, warmup, streamVars, proposerCacheGauge, execVars, validatorVars>>

FetchProposersCall(epoch, resp) ==
    LET r == FetchProposers(proposerCache, epoch, resp)
    IN  /\ proposerCacheGauge + r.adds <= MaxGauge
        /\ proposerCache' = r.cache
        /\ proposerCacheGauge' = proposerCacheGauge + r.adds
        /\ ret' = [op |-> "FetchProposers", epoch |-> epoch, resp |-> resp,
                   err |-> r.err, adds |-> r.adds]
        /\ UNCHANGED <<chainVars, faultVars, accesses, warmup, streamVars, execVars, validatorVars>>

NextProposers ==
    \/ \E slot \in Slots : GetProposerCall(slot)
    \/ \E slot \in Slots : GetProposerPublicKeyCall(slot)
    \/ \E epoch \in Epochs :
          \E resp \in ProposerDutiesResults(epoch, Min(MaxList, MaxGauge - proposerCacheGauge)) :
             FetchProposersCall(epoch, resp)

\* The client after construction, used through its proposer operations.
SpecProposers == Init /\ [][NextProposers]_vars

(***************************************************************************)
(* Claims about the proposer operations, checked under SpecProposers.      *)
(***************************************************************************)
\* GetProposer(slot) returns {pubkey, index} and GetProposerPublicKey(slot)
\* returns pubkey.
ProposerRoundTrip(cache, duty) ==
    /\ LET g == GetProposer(cache, duty.slot)
       IN  /\ g.err = Nil
           /\ g.val = [publicKey |-> duty.pubkey, index |-> duty.index]
    /\ LET k == GetProposerPublicKey(cache, duty.slot)
       IN  k.err = Nil /\ k.val = duty.pubkey

\* C6 as stated: after FetchProposers succeeds, EVERY duty of the list is
\* returned by GetProposer and GetProposerPublicKey for its slot.
C6_ProposerRoundTripEveryDuty ==
    (ret.op = "FetchProposers" /\ ret.err = Nil)
    => \A j \in 1..Len(ret.resp.data) : ProposerRoundTrip(proposerCache, ret.resp.data[j])

\* C6 amended: after FetchProposers succeeds, each of the last cacheSize
\* duties of the list (every duty, when the list has at most cacheSize
\* duties) is returned by GetProposer and GetProposerPublicKey for its
\* slot; the duties before them were evicted again and are not found.
C6_ProposerRoundTripRetained ==
    (ret.op = "FetchProposers" /\ ret.err = Nil)
    => \A j \in 1..Len(ret.resp.data) :
          IF Len(ret.resp.data) - j < cacheSize
          THEN ProposerRoundTrip(proposerCache, ret.resp.data[j])
          ELSE GetProposer(proposerCache, ret.resp.data[j].slot).err = "NotFound"

\* C6 witness: a successful fetch of at least two duties, the last two of
\* them found again.
C6_Witness ==
    /\ ret.op = "FetchProposers"
    /\ ret.err = Nil
    /\ Len(ret.resp.data) >= 2
    /\ \A j \in 1..2 : ProposerRoundTrip(proposerCache, ret.resp.data[Len(ret.resp.data) + 1 - j])

(***************************************************************************)
(* Validators.                                                             *)
(***************************************************************************)
\* Status strings of the beacon API, as sequences of characters.
ActiveOngoing == <<"a", "c", "t", "i", "v", "e", "_", "o", "n", "g", "o", "i", "n", "g">>

PendingQueued == <<"p", "e", "n", "d", "i", "n", "g", "_", "q", "u", "e", "u", "e", "d">>

ExitedUnslashed ==
    <<"e", "x", "i", "t", "e", "d", "_", "u", "n", "s", "l", "a", "s", "h", "e", "d">>

Statuses == {ActiveOngoing, PendingQueued, ExitedUnslashed}

\* strings.Contains
Contains(s, substr) ==
    \E i \in 0..(Len(s) - Len(substr)) : SubSeq(s, i + 1, i + Len(substr)) = substr

\* the classification of GetValidatorStatus (lines 326-333)
classifyStatus(validatorStatus) ==
    IF Contains(validatorStatus, <<"a", "c", "t", "i", "v", "e">>)
    THEN "StatusValidatorActive"
    ELSE IF Contains(validatorStatus, <<"p", "e", "n", "d", "i", "n", "g">>)
    THEN "StatusValidatorPending"
    ELSE "StatusValidatorUnknown"

\* the nil *eth2api.ValidatorResponse returned next to an error
NoValidator == [index |-> 0, status |-> <<>>, pubkey |-> "nil"]

\* A *types.PublicKey: the address of a public key held by the caller.
PointerTo(publicKey) == [pointee |-> publicKey]

\* The key of validatorCache.Add: validator.Validator.Pubkey, a
\* common.BLSPubkey value (lines 313-314).
ValidatorAddKey(publicKey) == Key("common.BLSPubkey", publicKey)

\* The key of validatorCache.Get: the parameter publicKey itself, a
\* *types.PublicKey (line 168).
ValidatorGetKey(pointer) == Key("*types.PublicKey", pointer)

\* GetValidator (lines 167-177)
GetValidator(cache, pointer) ==
    LET g == LRUGet(cache, ValidatorGetKey(pointer))
    IN  IF ~g.ok
        THEN [val |-> NoValidator, err |-> "NotFound", cache |-> g.cache]
        ELSE [val |-> g.value, err |-> Nil, cache |-> g.cache]

\* GetValidatorStatus (lines 321-334)
GetValidatorStatus(cache, pointer) ==
    LET r == GetValidator(cache, pointer)
    IN  IF r.err # Nil
        THEN [val |-> "StatusValidatorUnknown", err |-> r.err, cache |-> r.cache]
        ELSE [val |-> classifyStatus(r.val.status), err |-> Nil, cache |-> r.cache]

\* What beaconapi.StateValidators hands back: (exists, err) and the decoded
\* records.
ValidatorsNotFound == [exists |-> FALSE, err |-> Nil, data |-> <<>>]

ValidatorsTransportError == [exists |-> FALSE, err |-> "TransportError", data |-> <<>>]

ValidatorsDecodeError == [exists |-> TRUE, err |-> "DecodeError", data |-> <<>>]

ValidatorsOk(list) == [exists |-> TRUE, err |-> Nil, data |-> list]

\* the validator of the chain at position j of the registry (by index)
ValidatorAt(j) ==
    CHOOSE v \in Validators : Cardinality({w \in Validators : w.index < v.index}) = j - 1

\* The record lists a node answers with: the head state's registry, one
\* eth2api.ValidatorResponse per validator, in index order, each with the
\* validator's status.
ValidatorLists(longest) ==
    UNION {{[j \in 1..n |-> [index |-> ValidatorAt(j).index,
                             status |-> status[j],
                             pubkey |-> ValidatorAt(j).publicKey]] :
               status \in [1..n -> Statuses]} :
           n \in 0..Min(longest, Cardinality(Validators))}

\* the results with a list of at most `longest` records
StateValidatorsResults(longest) ==
    {ValidatorsNotFound, ValidatorsTransportError, ValidatorsDecodeError}
        \cup {ValidatorsOk(list) : list \in ValidatorLists(longest)}

\* the loop of FetchValidators (lines 312-316), from record i on
RECURSIVE AddValidators(_, _, _)
AddValidators(cache, response, i) ==
    IF i > Len(response)
    THEN cache
    ELSE AddValidators(LRUAdd(cache, ValidatorAddKey(response[i].pubkey), response[i]),
                       response, i + 1)

\* FetchValidators (lines 302-319)
FetchValidators(cache, resp) ==
    IF resp.err # Nil
    THEN [err |-> resp.err, cache |-> cache, adds |-> 0]
    ELSE IF ~resp.exists
    THEN [err |-> "ValidatorsDoNotExist", cache |-> cache, adds |-> 0]
    ELSE [err |-> Nil, cache |-> AddValidators(cache, resp.data, 1), adds |-> Len(resp.data)]

GetValidatorCall(publicKey) ==
    LET r == GetValidator(validatorCache, PointerTo(publicKey))
    IN  /\ validatorCache' = r.cache
        /\ ret' = [op |-> "GetValidator", publicKey |-> publicKey, val |-> r.val, err |-> r.err]
        /\ UNCHANGED <<chainVars, faultVars, accesses, warmup, streamVars, validatorCacheGauge, execVars, proposerVars>>

GetValidatorStatusCall(publicKey) ==
    LET r == GetValidatorStatus(validatorCache, PointerTo(publicKey))
    IN  /\ validatorCache' = r.cache
        /\ ret' = [op |-> "GetValidatorStatus", publicKey |-> publicKey,
                   val |-> r.val, err |-> r.err]
        /\ UNCHANGED <<chainVars, faultVars, accesses, warmup, streamVars, validatorCacheGauge, execVars, proposerVars>>

FetchValidatorsCall(resp) ==
    LET r == FetchValidators(validatorCache, resp)
    IN  /\ validatorCacheGauge + r.adds <= MaxGauge
        /\ validatorCache' = r.cache
        /\ validatorCacheGauge' = validatorCacheGauge + r.adds
        /\ ret' = [op |-> "FetchValidators", resp |-> resp, err |-> r.err, adds |-> r.adds]
        /\ UNCHANGED <<chainVars, faultVars, accesses, warmup, streamVars, execVars, proposerVars>>

NextValidators ==
    \/ \E publicKey \in PublicKeys : GetValidatorCall(publicKey)
    \/ \E publicKey \in PublicKeys : GetValidatorStatusCall(publicKey)
    \/ \E resp \in StateValidatorsResults(Min(MaxList, MaxGauge - validatorCacheGauge)) :
          FetchValidatorsCall(resp)

\* The client after construction, used through its validator operations.
SpecValidators == Init /\ [][NextValidators]_vars

(***************************************************************************)
(* Claims about the validator operations, checked under SpecValidators.    *)
(***************************************************************************)
\* The classification the documentation gives: Active if the status string
\* contains "active", otherwise Pending if it contains "pending", otherwise
\* Unknown.
DocumentedStatus(status) ==
    CASE Contains(status, <<"a", "c", "t", "i", "v", "e">>) -> "StatusValidatorActive"
      [] ~Contains(status, <<"a", "c", "t", "i", "v", "e">>)
            /\ Contains(status, <<"p", "e", "n", "d", "i", "n", "g">>) -> "StatusValidatorPending"
      [] OTHER -> "StatusValidatorUnknown"

\* C3 as stated: after FetchValidators succeeds with at most cacheSize
\* records, every record R of the response is returned by
\* GetValidator(R's key) and GetValidatorStatus(R's key) returns the
\* classification of R's status with no error.
C3_ValidatorRoundTrip ==
    (ret.op = "FetchValidators" /\ ret.err = Nil /\ Len(ret.resp.data) <= cacheSize)
    => \A j \in 1..Len(ret.resp.data) :
          LET R == ret.resp.data[j]
              g == GetValidator(validatorCache, PointerTo(R.pubkey))
              st == GetValidatorStatus(validatorCache, PointerTo(R.pubkey))
          IN  /\ g.err = Nil
              /\ g.val = R
              /\ st.err = Nil
              /\ st.val = DocumentedStatus(R.status)

\* The records the validator cache holds for a public key.
CachedRecords(cache, publicKey) ==
    {cache[i].value : i \in {n \in 1..Len(cache) : cache[n].value.pubkey = publicKey}}

\* C7 as stated: GetValidatorStatus classifies the cached record of a public
\* key by its status string, with no error; for a public key with no
\* cached record it returns the NotFound error of the lookup.
C7_StatusClassification ==
    \A publicKey \in PublicKeys :
       LET st == GetValidatorStatus(validatorCache, PointerTo(publicKey))
       IN  IF CachedRecords(validatorCache, publicKey) = {}
           THEN st.err = "NotFound"
           ELSE /\ st.err = Nil
                /\ \A R \in CachedRecords(validatorCache, publicKey) :
                      st.val = DocumentedStatus(R.status)

(***************************************************************************)
(* NewClient and its warmup.                                               *)
(***************************************************************************)
\* The remote node during a warmup answers a duties or validators query
\* with a failure or with the list of its chain.
NodeDuties(epoch, slotsPerEpoch) ==
    [j \in 1..slotsPerEpoch |->
        LET v == ValidatorAt(((epoch * slotsPerEpoch + j - 1) % Cardinality(Validators)) + 1)
        IN  [slot |-> epoch * slotsPerEpoch + j - 1, pubkey |-> v.publicKey, index |-> v.index]]

NodeValidators ==
    <<[index |-> ValidatorAt(1).index, status |-> ActiveOngoing, pubkey |-> ValidatorAt(1).publicKey],
      [index |-> ValidatorAt(2).index, status |-> PendingQueued, pubkey |-> ValidatorAt(2).publicKey],
      [index |-> ValidatorAt(3).index, status |-> ExitedUnslashed, pubkey |-> ValidatorAt(3).publicKey]>>

NodeDutiesResults(epoch, slotsPerEpoch) ==
    {DutiesSyncing, DutiesTransportError, DutiesDecodeError,
     DutiesOk(NodeDuties(epoch, slotsPerEpoch))}

NodeValidatorsResults ==
    {ValidatorsNotFound, ValidatorsTransportError, ValidatorsDecodeError,
     ValidatorsOk(NodeValidators)}

baseSlotUnanchored(currentSlot, slotsPerEpoch) == 0

\* the slot the warmup loop starts at (lines 112-115)
baseSlot(currentSlot, slotsPerEpoch) ==
    IF currentSlot > slotsPerEpoch THEN currentSlot - slotsPerEpoch ELSE 0

\* the test of the loop of line 117: another pass, or on to the proposers
LoopOrLeave(i, slotsPerEpoch) ==
    IF i < slotsPerEpoch THEN "executionHashes" ELSE "proposers"

Attempt(call, arg, err) == [call |-> call, arg |-> arg, err |-> err]

WarmupErrorReturned(err, next) == IF err # Nil THEN "return" ELSE next

\* What follows a warmup call that returned err: the error is logged and
\* the warmup goes on (lines 119-121, 125-127, 131-133, 136-138).
WarmupErrorLogged(err, next) == next

\* NewClient up to its call of loadCurrentContext (lines 62-100) and
\* loadCurrentContext up to its loop (lines 109-117).  lru.New(cacheSize)
\* does not fail for the positive cacheSize.  The program constructs its
\* one client when it starts.
NewClientCall(currentSlot, currentEpoch, slotsPerEpoch) ==
    /\ warmup.pc = "none"
    /\ ret = NoCall
    /\ executionCache' = <<>>
    /\ executionCacheGauge' = 0
    /\ proposerCache' = <<>>
    /\ proposerCacheGauge' = 0
    /\ validatorCache' = <<>>
    /\ validatorCacheGauge' = 0
    /\ warmup' = [pc |-> LoopOrLeave(baseSlot(currentSlot, slotsPerEpoch), slotsPerEpoch),
                  i |-> baseSlot(currentSlot, slotsPerEpoch),
                  currentSlot |-> currentSlot, currentEpoch |-> currentEpoch,
                  slotsPerEpoch |-> slotsPerEpoch, trace |-> <<>>]
    /\ UNCHANGED <<chainVars, faultVars, accesses, ret, streamVars>>

\* one pass of the loop of lines 117-122
WarmExecutionHash(resp) ==
    LET r == FetchExecutionHash(executionCache, warmup.i, resp)
    IN  /\ warmup.pc = "executionHashes"
        /\ Cached(executionCache, warmup.i) => resp = NoQuery
        /\ executionCache' = r.cache
        /\ executionCacheGauge' = executionCacheGauge + r.adds
        /\ warmup' = [warmup EXCEPT
                        !.trace = Append(@, Attempt("FetchExecutionHash", warmup.i, r.err)),
                        !.i = warmup.i + 1,
                        !.pc = WarmupErrorLogged(r.err, LoopOrLeave(warmup.i + 1, warmup.slotsPerEpoch))]
        /\ UNCHANGED <<chainVars, faultVars, accesses, proposerVars, validatorVars, ret, streamVars>>

\* lines 124-127
WarmProposers(resp) ==
    LET r == FetchProposers(proposerCache, warmup.currentEpoch, resp)
    IN  /\ warmup.pc = "proposers"
        /\ proposerCache' = r.cache
        /\ proposerCacheGauge' = proposerCacheGauge + r.adds
        /\ warmup' = [warmup EXCEPT
                        !.trace = Append(@, Attempt("FetchProposers", warmup.currentEpoch, r.err)),
                        !.pc = WarmupErrorLogged(r.err, "nextProposers")]
        /\ UNCHANGED <<chainVars, faultVars, accesses, execVars, validatorVars, ret, streamVars>>

\* lines 129-133
WarmNextProposers(resp) ==
    LET nextEpoch == warmup.currentEpoch + 1
        r == FetchProposers(proposerCache, nextEpoch, resp)
    IN  /\ warmup.pc = "nextProposers"
        /\ proposerCache' = r.cache
        /\ proposerCacheGauge' = proposerCacheGauge + r.adds
        /\ warmup' = [warmup EXCEPT
                        !.trace = Append(@, Attempt("FetchProposers", nextEpoch, r.err)),
                        !.pc = WarmupErrorLogged(r.err, "validators")]
        /\ UNCHANGED <<chainVars, faultVars, accesses, execVars, validatorVars, ret, streamVars>>

\* lines 135-138
WarmValidators(resp) ==
    LET r == FetchValidators(validatorCache, resp)
    IN  /\ warmup.pc = "validators"
        /\ validatorCache' = r.cache
        /\ validatorCacheGauge' = validatorCacheGauge + r.adds
        /\ warmup' = [warmup EXCEPT
                        !.trace = Append(@, Attempt("FetchValidators", 0, r.err)),
                        !.pc = WarmupErrorLogged(r.err, "return")]
        /\ UNCHANGED <<chainVars, faultVars, accesses, execVars, proposerVars, ret, streamVars>>

\* loadCurrentContext returns nil (line 140) and NewClient returns the
\* client and nil (lines 100-106).
NewClientReturn ==
    /\ warmup.pc = "return"
    /\ warmup' = [warmup EXCEPT !.pc = "done"]
    /\ ret' = [op |-> "NewClient", currentSlot |-> warmup.currentSlot,
               currentEpoch |-> warmup.currentEpoch,
               slotsPerEpoch |-> warmup.slotsPerEpoch,
               client |-> TRUE, err |-> Nil, trace |-> warmup.trace]
    /\ UNCHANGED <<chainVars, faultVars, accesses, execVars, proposerVars, validatorVars, streamVars>>

NextNewClient ==
    \/ \E currentSlot \in Slots, currentEpoch \in Epochs, slotsPerEpoch \in 0..MaxSlotsPerEpoch :
          NewClientCall(currentSlot, currentEpoch, slotsPerEpoch)
    \/ \E resp \in BlockV2Results : WarmExecutionHash(resp)
    \/ \E resp \in NodeDutiesResults(warmup.currentEpoch, warmup.slotsPerEpoch) :
          WarmProposers(resp)
    \/ \E resp \in NodeDutiesResults(warmup.currentEpoch + 1, warmup.slotsPerEpoch) :
          WarmNextProposers(resp)
    \/ \E resp \in NodeValidatorsResults : WarmValidators(resp)
    \/ NewClientReturn

\* The process from its start (gauges registered at 0, no client yet)
\* through the construction of its client.
SpecNewClient == Init /\ [][NextNewClient]_vars

(***************************************************************************)
(* Claims about NewClient, checked under SpecNewClient.                    *)
(***************************************************************************)
\* The window of the warmup as documented: [max(0, currentSlot -
\* slotsPerEpoch), slotsPerEpoch).
DocumentedWindow(currentSlot, slotsPerEpoch) ==
    {s \in 0..(slotsPerEpoch - 1) : s >= currentSlot - slotsPerEpoch}

\* C10: whatever warmup calls fail, NewClient returns a client and no
\* error, and the warmup attempted, in this order: the execution hash of
\* each slot of the window (ascending), FetchProposers(currentEpoch),
\* FetchProposers(currentEpoch + 1), FetchValidators.
C10_WarmupNeverFails ==
    /\ warmup.pc \in {"return", "done"}
       => LET window == DocumentedWindow(warmup.currentSlot, warmup.slotsPerEpoch)
              n == Cardinality(window)
              trace == warmup.trace
          IN  /\ Len(trace) = n + 3
              /\ \A i \in 1..n :
                    /\ trace[i].call = "FetchExecutionHash"
                    /\ trace[i].arg \in window
                    /\ i > 1 => trace[i].arg > trace[i - 1].arg
              /\ trace[n + 1] = Attempt("FetchProposers", warmup.currentEpoch, trace[n + 1].err)
              /\ trace[n + 2] = Attempt("FetchProposers", warmup.currentEpoch + 1, trace[n + 2].err)
              /\ trace[n + 3].call = "FetchValidators"
    /\ ret.op = "NewClient" => ret.client /\ ret.err = Nil /\ ret.trace = warmup.trace

\* C10 witness: NewClient has returned a client after a warmup in which an
\* execution-hash fetch and the first FetchProposers failed and the steps
\* after them were made and succeeded.
C10_Witness ==
    /\ ret.op = "NewClient"
    /\ ret.client
    /\ LET n == Len(ret.trace)
       IN  /\ n >= 5
           /\ ret.trace[1].err # Nil
           /\ ret.trace[2].err = Nil
           /\ ret.trace[n - 2].err # Nil
           /\ ret.trace[n - 1].err = Nil
           /\ ret.trace[n].err = Nil
    /\ validatorCache # <<>>

\* the slots of the FetchExecutionHash attempts of a warmup, in their order
ExecutionHashAttempts(trace) ==
    LET IsExecutionHashAttempt(a) == a.call = "FetchExecutionHash"
        attempts == SelectSeq(trace, IsExecutionHashAttempt)
    IN  [j \in 1..Len(attempts) |-> attempts[j].arg]

\* max(0, currentSlot - slotsPerEpoch)
WindowStart(currentSlot, slotsPerEpoch) ==
    IF currentSlot - slotsPerEpoch > 0 THEN currentSlot - slotsPerEpoch ELSE 0

\* C11: when the warmup has left its loop, the slots it attempted
\* FetchExecutionHash for are the slots of [max(0, currentSlot -
\* slotsPerEpoch), slotsPerEpoch), each once, ascending, and no other,
\* whichever attempts failed.
C11_WarmupWindow ==
    warmup.pc \in {"proposers", "nextProposers", "validators", "return", "done"}
    => LET start == WindowStart(warmup.currentSlot, warmup.slotsPerEpoch)
           attempts == ExecutionHashAttempts(warmup.trace)
       IN  /\ Len(attempts) = IF warmup.slotsPerEpoch > start
                              THEN warmup.slotsPerEpoch - start ELSE 0
           /\ \A j \in 1..Len(attempts) : attempts[j] = start + j - 1

\* C11 witness: a warmup past its loop whose window starts after slot 0
\* and whose first attempt failed.
C11_Witness ==
    /\ warmup.pc = "proposers"
    /\ warmup.currentSlot > warmup.slotsPerEpoch
    /\ Len(warmup.trace) >= 1
    /\ warmup.trace[1].arg > 0
    /\ warmup.trace[1].err # Nil

\* C20: for currentSlot >= 1 and slotsPerEpoch >= 1, NewClient has
\* attempted FetchExecutionHash for at least one slot S with
\* currentSlot - slotsPerEpoch <= S <= currentSlot.
C20_WarmupAnchoredAtCurrentSlot ==
    (ret.op = "NewClient" /\ ret.currentSlot >= 1 /\ ret.slotsPerEpoch >= 1)
    => \E j \in 1..Len(ret.trace) :
          /\ ret.trace[j].call = "FetchExecutionHash"
          /\ ret.currentSlot - ret.slotsPerEpoch <= ret.trace[j].arg
          /\ ret.trace[j].arg <= ret.currentSlot

(***************************************************************************)
(* The client used through its three fetch operations.                     *)
(***************************************************************************)
\* The calls of one run add at most FetchBudget entries to the caches.
FetchBudget == MaxGauge + 1

\* The node of these runs has a chain whose blocks all carry one execution
\* hash.
NodeBlockResults ==
    {resp \in BlockV2Results :
        resp.data.fork = "bellatrix" => resp.data.hash = "h1"}

NextFetch ==
    /\ \/ \E slot \in Slots, resp \in NodeBlockResults : FetchExecutionHashCall(slot, resp)
       \/ \E epoch \in Epochs, slotsPerEpoch \in {1, MaxSlotsPerEpoch} :
             \E resp \in NodeDutiesResults(epoch, slotsPerEpoch) :
                FetchProposersCall(epoch, resp)
       \/ \E resp \in NodeValidatorsResults : FetchValidatorsCall(resp)
    /\ executionCacheGauge' + proposerCacheGauge' + validatorCacheGauge' <= FetchBudget

SpecFetch == Init /\ [][NextFetch]_vars

(***************************************************************************)
(* Claims about the fetch operations, checked under SpecFetch.             *)
(***************************************************************************)
\* the key-to-value contents of a cache
Contents(cache) == {<<cache[j].key, cache[j].value>> : j \in 1..Len(cache)}

FetchOps == {"FetchExecutionHash", "FetchProposers", "FetchValidators"}

\* C13: a call of FetchProposers, FetchValidators or FetchExecutionHash
\* that returns an error leaves the key-to-value contents of all three
\* caches as they were before the call.
C13_FailedFetchKeepsCaches ==
    [][(ret'.op \in FetchOps /\ ret'.err # Nil)
        => /\ Contents(executionCache') = Contents(executionCache)
           /\ Contents(proposerCache') = Contents(proposerCache)
           /\ Contents(validatorCache') = Contents(validatorCache)]_vars

\* C13 witness: a fetch has just failed on a client whose three caches all
\* hold entries.
C13_Witness ==
    /\ ret.op \in FetchOps
    /\ ret.err # Nil
    /\ executionCache # <<>>
    /\ proposerCache # <<>>
    /\ validatorCache # <<>>

\* The Adds a call FetchExecutionHash(slot) answered with resp makes on the
\* cache: none on a hit; one for a Bellatrix block; for a slot the node has
\* no answer for, one per slot from the nearest cached slot below up to slot.
ExecutionHashAdds(cache, slot, resp) ==
    IF Cached(cache, slot) THEN 0
    ELSE IF resp.exists
    THEN IF resp.err = Nil /\ resp.data.fork = "bellatrix" THEN 1 ELSE 0
    ELSE IF \E k \in 0..(slot - 1) : Cached(cache, k)
    THEN slot - (CHOOSE k \in 0..(slot - 1) :
                    Cached(cache, k) /\ \A s \in (k + 1)..(slot - 1) : ~Cached(cache, s))
    ELSE 0

\* the Adds of a call of FetchProposers or FetchValidators: one per entry of
\* the list of a successful response
ListAdds(resp, err) == IF err = Nil THEN Len(resp.data) ELSE 0

Chains == [Slots -> Hashes \cup {Skipped}]

\* The answer of BlockV2 for a slot of the chain.
ChainBlock(slot) ==
    IF chain[slot] = Skipped THEN BlockNotFound ELSE BellatrixBlock(chain[slot])

\* The slots a call wrote: the slot itself for a block of the node (line
\* 259), the slots the backfill filled up to it otherwise (lines 223-226).
SlotsWritten(target, r) ==
    IF r.adds = 0 THEN {} ELSE {s \in Slots : target - r.adds < s /\ s <= target}

Record(target, r) ==
    [s \in Slots |-> IF s \in SlotsWritten(target, r) THEN written[s] \cup {r.val}
                     ELSE written[s]]

ChainFetchExecutionHash(slot) ==
    LET r == FetchExecutionHash(executionCache, slot, ChainBlock(slot))
    IN  /\ executionCacheGauge + r.adds <= FetchBudget
        /\ executionCache' = r.cache
        /\ executionCacheGauge' = executionCacheGauge + r.adds
        /\ written' = Record(slot, r)
        /\ ret' = [op |-> "FetchExecutionHash", slot |-> slot, resp |-> ChainBlock(slot),
                   val |-> r.val, err |-> r.err, queries |-> r.queries, adds |-> r.adds]
        /\ UNCHANGED <<chain, proposerVars, validatorVars, warmup, streamVars, accesses, faultVars>>

ChainGetParentHash(slot) ==
    LET r == GetParentHash(executionCache, slot, ChainBlock(slot - 1))
    IN  /\ slot >= 1
        /\ executionCacheGauge + r.adds <= FetchBudget
        /\ executionCache' = r.cache
        /\ executionCacheGauge' = executionCacheGauge + r.adds
        /\ written' = Record(slot - 1, r)
        /\ ret' = [op |-> "GetParentHash", slot |-> slot, resp |-> ChainBlock(slot - 1),
                   val |-> r.val, err |-> r.err, queries |-> r.queries, adds |-> r.adds]
        /\ UNCHANGED <<chain, proposerVars, validatorVars, warmup, streamVars, accesses, faultVars>>

InitChain ==
    /\ InitClient
    /\ chain \in Chains
    /\ written = [slot \in Slots |-> {}]

NextChain ==
    \/ \E slot \in Slots : ChainFetchExecutionHash(slot)
    \/ \E slot \in Slots \ {0} : ChainGetParentHash(slot)

SpecChain == InitChain /\ [][NextChain]_vars

(***************************************************************************)
(* Claims about the execution-hash cache and the chain, under SpecChain.   *)
(***************************************************************************)
\* C17: once a hash has been written to the execution-hash cache for a
\* slot, no later write stores a different hash for that slot.
C17_WriteOnce ==
    \A slot \in Slots : Cardinality(written[slot]) <= 1

\* the slots at or before S that have a block
BlocksUpTo(S) == {s \in 0..S : chain[s] # Skipped}

\* C18: every entry S -> H of the execution-hash cache carries the hash of
\* the most recent block at or before slot S on the chain.
C18_CacheMatchesChain ==
    \A j \in 1..Len(executionCache) :
       LET S == executionCache[j].key.v
       IN  /\ BlocksUpTo(S) # {}
           /\ executionCache[j].value
                 = chain[CHOOSE s \in BlocksUpTo(S) : \A t \in BlocksUpTo(S) : t <= s]

(***************************************************************************)
(* A cache of the client used through Get and Add alone.                   *)
(***************************************************************************)
\* executionCache.Get(slot)
CacheGet(slot) ==
    LET g == LRUGet(executionCache, SlotKey(slot))
    IN  /\ Len(accesses) < MaxAccesses
        /\ executionCache' = g.cache
        /\ accesses' = Append(accesses, [op |-> "Get", key |-> SlotKey(slot), ok |-> g.ok])
        /\ UNCHANGED <<chainVars, faultVars, executionCacheGauge, proposerVars, validatorVars, ret, warmup, streamVars>>

\* executionCache.Add(slot, hash)
CacheAdd(slot, hash) ==
    /\ Len(accesses) < MaxAccesses
    /\ executionCache' = LRUAdd(executionCache, SlotKey(slot), hash)
    /\ accesses' = Append(accesses, [op |-> "Add", key |-> SlotKey(slot), ok |-> TRUE])
    /\ UNCHANGED <<chainVars, faultVars, executionCacheGauge, proposerVars, validatorVars, ret, warmup, streamVars>>

NextCache ==
    \/ \E slot \in Slots : CacheGet(slot)
    \/ \E slot \in Slots, hash \in Hashes : CacheAdd(slot, hash)

SpecCache == Init /\ [][NextCache]_vars

(***************************************************************************)
(* Claims about the caches, checked under SpecCache.                       *)
(***************************************************************************)
\* An operation that counts as an access: an Add, or a Get that found its
\* key.
IsAccess(a) == a.op = "Add" \/ (a.op = "Get" /\ a.ok)

\* The distinct keys of the accesses of a log, the most recently accessed
\* first: the log is read from its end, a key counting where it is met
\* first.
RECURSIVE RecentKeys(_, _)
RecentKeys(log, seen) ==
    IF log = <<>>
    THEN <<>>
    ELSE LET last == log[Len(log)]
             rest == SubSeq(log, 1, Len(log) - 1)
         IN  IF IsAccess(last) /\ last.key \notin seen
             THEN <<last.key>> \o RecentKeys(rest, seen \cup {last.key})
             ELSE RecentKeys(rest, seen)

KeysAdded(log) == {log[j].key : j \in {i \in 1..Len(log) : log[i].op = "Add"}}

\* C12: after any sequence of Get and Add, a cache of capacity N holds
\* exactly the min(N, number of distinct keys added) most recently
\* accessed keys (Add and a successful Get are accesses), so never more
\* than N entries.
C12_HoldsMostRecentlyAccessed ==
    LET recent == RecentKeys(accesses, {})
        n == Min(cacheSize, Cardinality(KeysAdded(accesses)))
    IN  /\ Len(executionCache) = n
        /\ Len(executionCache) <= cacheSize
        /\ {executionCache[j].key : j \in 1..Len(executionCache)}
              = {recent[j] : j \in 1..n}

\* C12 witness: a full cache was given a Get that found the older key and
\* then an Add of a new key: the key the Get protected is held, the other
\* one was evicted.
C12_Witness ==
    /\ Len(accesses) = cacheSize + 2
    /\ \A j \in 1..cacheSize : accesses[j].op = "Add"
    /\ Cardinality({accesses[j].key : j \in 1..cacheSize}) = cacheSize
    /\ accesses[cacheSize + 1] = [op |-> "Get", key |-> accesses[1].key, ok |-> TRUE]
    /\ accesses[cacheSize + 2].op = "Add"
    /\ accesses[cacheSize + 2].key \notin {accesses[j].key : j \in 1..cacheSize}
    /\ LRUContains(executionCache, accesses[1].key)
    /\ ~LRUContains(executionCache, accesses[2].key)

(***************************************************************************)
(* The fault record.                                                       *)
(***************************************************************************)
\* the fields of Faults (relay_faults.go, lines 7-16)
Counters ==
    {"TotalBids", "MalformedBids", "ConsensusInvalidBids", "PaymentInvalidBids",
     "IgnoredPreferencesBids", "MalformedPayloads", "ConsensusInvalidPayloads",
     "UnavailablePayloads"}

\* Faults{}
ZeroFaults == [counter \in Counters |-> 0]

\* the faults counted so far, over all blocks
RECURSIVE SumOver(_, _)
SumOver(faults, counters) ==
    IF counters = {} THEN 0
    ELSE LET counter == CHOOSE c \in counters : TRUE
         IN  faults[counter] + SumOver(faults, counters \ {counter})

RECURSIVE FaultsCounted(_)
FaultsCounted(heap) ==
    IF heap = <<>> THEN 0 ELSE SumOver(Head(heap), Counters) + FaultsCounted(Tail(heap))

AddressOfSharedFaults(heap) == 1

\* &Faults{}: the address of a new block
AddressOfNewFaults(heap) == Len(heap) + 1

\* The analysis gives a public key its entry: a new Faults block.
RegisterFaults(publicKey) ==
    /\ faultRecord[publicKey] = 0
    /\ faultsHeap' = IF AddressOfNewFaults(faultsHeap) > Len(faultsHeap)
                     THEN Append(faultsHeap, ZeroFaults) ELSE faultsHeap
    /\ faultRecord' = [faultRecord EXCEPT ![publicKey] = AddressOfNewFaults(faultsHeap)]
    /\ ret' = [op |-> "RegisterFaults", publicKey |-> publicKey, counter |-> "none"]
    /\ UNCHANGED <<chainVars, execVars, proposerVars, validatorVars, warmup, streamVars, accesses>>

\* The analysis counts a fault: faultRecord[publicKey].counter++
IncrementFault(publicKey, counter) ==
    /\ faultRecord[publicKey] # 0
    /\ FaultsCounted(faultsHeap) < MaxFaults
    /\ faultsHeap' = [faultsHeap EXCEPT ![faultRecord[publicKey]][counter] = @ + 1]
    /\ ret' = [op |-> "IncrementFault", publicKey |-> publicKey, counter |-> counter]
    /\ UNCHANGED <<chainVars, faultRecord, execVars, proposerVars, validatorVars, warmup, streamVars, accesses>>

NextFaults ==
    \/ \E publicKey \in PublicKeys : RegisterFaults(publicKey)
    \/ \E publicKey \in PublicKeys, counter \in Counters : IncrementFault(publicKey, counter)

SpecFaults == Init /\ [][NextFaults]_vars

(***************************************************************************)
(* Claims about the fault record, checked under SpecFaults.                *)
(***************************************************************************)
\* the counter of a key of the record, as read through the record
FaultCounter(record, heap, publicKey, counter) == heap[record[publicKey]][counter]

\* C16: incrementing one counter of the Faults block of key K raises that
\* counter by one and changes no other counter of K and no counter of any
\* other key; and no step lowers a counter.
C16_FaultCountersIndependent ==
    [][/\ \A publicKey \in PublicKeys, counter \in Counters :
             faultRecord[publicKey] # 0
             => /\ faultRecord'[publicKey] # 0
                /\ FaultCounter(faultRecord', faultsHeap', publicKey, counter)
                      >= FaultCounter(faultRecord, faultsHeap, publicKey, counter)
       /\ ret'.op = "IncrementFault"
          => \A publicKey \in PublicKeys, counter \in Counters :
                faultRecord[publicKey] # 0
                => FaultCounter(faultRecord', faultsHeap', publicKey, counter)
                      = FaultCounter(faultRecord, faultsHeap, publicKey, counter)
                        + (IF publicKey = ret'.publicKey /\ counter = ret'.counter
                           THEN 1 ELSE 0)]_vars

\* C16 witness: a counter of one key was just incremented while another
\* key holds a block with a counted fault of its own.
C16_Witness ==
    /\ ret.op = "IncrementFault"
    /\ \E other \in PublicKeys \ {ret.publicKey} :
          /\ faultRecord[other] # 0
          /\ \E counter \in Counters :
                FaultCounter(faultRecord, faultsHeap, other, counter) = 1
    /\ FaultCounter(faultRecord, faultsHeap, ret.publicKey, ret.counter) = 1

(***************************************************************************)
(* StreamHeads.                                                            *)
(***************************************************************************)
\* make(chan types.Coordinate, 1)
chanCapacity == 1

\* The int of strconv.Atoi has the width of the uint64 of types.Slot.
MinInt == -(SlotModulus \div 2)

MaxInt == SlotModulus - (SlotModulus \div 2) - 1

Roots == {"r1", "r2"}

\* The text of the slot field of a raw event, as its characters; empty when
\* the field is missing.
SlotTexts == {<<>>, <<"1">>, <<"3">>, <<"-", "1">>, <<"x">>}

\* A raw event whose data is not the JSON of a headEvent.
NotJSON == [json |-> FALSE, slot |-> <<>>, block |-> "r1"]

\* msg.Data of a raw event: not JSON, or JSON decoding into a headEvent.
RawEvents == {NotJSON} \cup [json : {TRUE}, slot : SlotTexts, block : Roots]

DecimalDigits == <<"0", "1", "2", "3", "4", "5", "6", "7", "8", "9">>

IsDigit(c) == \E d \in 1..Len(DecimalDigits) : DecimalDigits[d] = c

DigitValue(c) == (CHOOSE d \in 1..Len(DecimalDigits) : DecimalDigits[d] = c) - 1

\* the value of the digits s, read after the value acc
RECURSIVE ParseDigits(_, _)
ParseDigits(s, acc) ==
    IF s = <<>> THEN acc ELSE ParseDigits(Tail(s), 10 * acc + DigitValue(Head(s)))

\* strconv.Atoi: an optional sign, then decimal digits, within the int
Atoi(s) ==
    LET signed == s # <<>> /\ Head(s) \in {"+", "-"}
        digits == IF signed THEN Tail(s) ELSE s
        n == IF signed /\ Head(s) = "-" THEN -ParseDigits(digits, 0) ELSE ParseDigits(digits, 0)
    IN  IF digits = <<>> \/ \E j \in 1..Len(digits) : ~IsDigit(digits[j])
        THEN [val |-> 0, err |-> "ErrSyntax"]
        ELSE IF n < MinInt \/ n > MaxInt
        THEN [val |-> 0, err |-> "ErrRange"]
        ELSE [val |-> n, err |-> Nil]

\* The handler up to its send (lines 277-291): ok when it has a head to send.
DecodeHead(msg) ==
    IF ~msg.json
    THEN [ok |-> FALSE, head |-> NoHead]
    ELSE LET slot == Atoi(msg.slot)
         IN  IF slot.err # Nil
             THEN [ok |-> FALSE, head |-> NoHead]
             ELSE [ok |-> TRUE,
                   head |-> [slot |-> slot.val % SlotModulus, root |-> msg.block]]

\* StreamHeads (lines 270-299): makes the channel, starts the goroutine,
\* returns the channel.
StreamHeadsCall ==
    /\ streamPc = "notStarted"
    /\ streamPc' = "subscribed"
    /\ ch' = <<>>
    /\ UNCHANGED <<chainVars, faultVars, accesses, handled, head, delivered, cancelled,
                   execVars, proposerVars, validatorVars, ret, warmup>>

\* The subscription hands a raw event to the handler (lines 276-292), which
\* drops it or goes on to send its coordinate.  The subscription calls the
\* handler for one event at a time.
HandleEvent(msg) ==
    LET d == DecodeHead(msg)
    IN  /\ streamPc = "subscribed"
        /\ ~cancelled
        /\ Len(handled) < MaxEvents
        /\ handled' = Append(handled, msg)
        /\ head' = d.head
        /\ streamPc' = IF d.ok THEN "sending" ELSE "subscribed"
        /\ UNCHANGED <<chainVars, faultVars, accesses, ch, delivered, cancelled,
                       execVars, proposerVars, validatorVars, ret, warmup>>

\* ch <- head (line 291): blocks while the buffer is full.
Send ==
    /\ streamPc = "sending"
    /\ Len(ch) < chanCapacity
    /\ ch' = Append(ch, head)
    /\ head' = NoHead
    /\ streamPc' = "subscribed"
    /\ UNCHANGED <<chainVars, faultVars, accesses, handled, delivered, cancelled,
                   execVars, proposerVars, validatorVars, ret, warmup>>

\* The consumer receives from the channel.
Receive ==
    /\ ch # <<>>
    /\ delivered' = Append(delivered, Head(ch))
    /\ ch' = Tail(ch)
    /\ UNCHANGED <<chainVars, faultVars, accesses, streamPc, handled, head, cancelled,
                   execVars, proposerVars, validatorVars, ret, warmup>>

\* The caller cancels ctx.
Cancel ==
    /\ streamPc # "notStarted"
    /\ ~cancelled
    /\ cancelled' = TRUE
    /\ UNCHANGED <<chainVars, faultVars, accesses, streamPc, handled, head, ch, delivered,
                   execVars, proposerVars, validatorVars, ret, warmup>>

\* SubscribeRawWithContext returns between two events: when the subscription
\* fails, or when ctx is cancelled; the goroutine logs and ends (lines
\* 293-296).
SubscribeReturns ==
    /\ streamPc = "subscribed"
    /\ streamPc' = "exited"
    /\ UNCHANGED <<chainVars, faultVars, accesses, handled, head, ch, delivered, cancelled,
                   execVars, proposerVars, validatorVars, ret, warmup>>

\* SubscribeRawWithContext returns because ctx is cancelled.
CancelledSubscribeReturns ==
    /\ cancelled
    /\ SubscribeReturns

NextStream ==
    \/ StreamHeadsCall
    \/ \E msg \in RawEvents : HandleEvent(msg)
    \/ Send
    \/ Receive
    \/ Cancel
    \/ SubscribeReturns

SpecStream == Init /\ [][NextStream]_vars

\* The goroutine takes its own steps: a send that stays possible is made,
\* and a cancelled subscription returns.  The consumer, the caller and the
\* remote node are free to do nothing.
FairSpecStream ==
    /\ SpecStream
    /\ WF_vars(Send)
    /\ WF_vars(CancelledSubscribeReturns)

(***************************************************************************)
(* Claims about StreamHeads.                                               *)
(***************************************************************************)
\* A numeric slot: the slot text is a non-empty run of decimal digits
\* denoting a Slot.
NumericSlot(text) ==
    /\ text # <<>>
    /\ \A j \in 1..Len(text) : IsDigit(text[j])
    /\ ParseDigits(text, 0) <= MaxSlot

\* A well-formed event: valid JSON with a numeric slot.
WellFormed(msg) == msg.json /\ NumericSlot(msg.slot)

\* the coordinates of the well-formed events of a sequence, in its order
CoordinatesOf(events) ==
    LET wellFormed == SelectSeq(events, WellFormed)
    IN  [j \in 1..Len(wellFormed) |->
            [slot |-> ParseDigits(wellFormed[j].slot, 0), root |-> wellFormed[j].block]]

\* the coordinate the handler is sending
Sending == IF streamPc = "sending" THEN <<head>> ELSE <<>>

\* C8: the coordinates delivered to the consumer, followed by the one in
\* the buffer and the one being sent, are exactly the coordinates of the
\* well-formed events handled so far (valid JSON with a numeric slot), one
\* each, in the order of arrival; a malformed event adds none and stops
\* nothing.
C8_OneCoordinatePerWellFormedEvent ==
    delivered \o ch \o Sending = CoordinatesOf(handled)

\* C9: once ctx is cancelled, the goroutine of StreamHeads eventually
\* ends, whatever the consumer does.
C9_CancelledTaskStops ==
    cancelled ~> (streamPc = "exited")

=============================================================================
